---- MODULE Spec2Model ----
(***************************************************************************)
(* Model of conversion_xml_to_sql.py: the conversion of a SAP HANA         *)
(* Calculation View document into a WITH script (process_file), the filter *)
(* rewriting (replace_filter_expressions) and the command-line driver      *)
(* (__main__) that applies process_file to a file or a directory tree.     *)
(*                                                                         *)
(* Texts are TLA+ strings; Len, SubSeq and \o act on them as on sequences  *)
(* of characters.  An optional value (an XML attribute that may be absent, *)
(* a Python None) is the empty tuple <<>> when absent and <<v>> otherwise. *)
(***************************************************************************)
EXTENDS Integers, Sequences, FiniteSets, TLC

(***************************************************************************)
(* Python built-ins used by the program                                    *)
(***************************************************************************)
None == <<>>

Some(v) == <<v>>

\* bool(x) of an optional string: None and "" are falsy
truthy(a) == a # None /\ a[1] # ""

\* element.get(name, default)
attr_get(a, default) == IF a = None THEN default ELSE a[1]

\* str(x) as an f-string renders it: None is rendered "None"
fstr(a) == IF a = None THEN "None" ELSE a[1]

Char(s, i) == SubSeq(s, i, i)

RECURSIVE lstrip(_, _)
\* s.lstrip(ch): every leading ch is removed
lstrip(s, ch) ==
    IF Len(s) > 0 /\ Char(s, 1) = ch
    THEN lstrip(SubSeq(s, 2, Len(s)), ch)
    ELSE s

Whitespace == {" ", "\n", "\t", "\r"}

RECURSIVE lstrip_ws(_)
lstrip_ws(s) ==
    IF Len(s) > 0 /\ Char(s, 1) \in Whitespace
    THEN lstrip_ws(SubSeq(s, 2, Len(s)))
    ELSE s

RECURSIVE rstrip_ws(_)
rstrip_ws(s) ==
    IF Len(s) > 0 /\ Char(s, Len(s)) \in Whitespace
    THEN rstrip_ws(SubSeq(s, 1, Len(s) - 1))
    ELSE s

\* s.strip()
strip(s) == rstrip_ws(lstrip_ws(s))

LowerLetters == "abcdefghijklmnopqrstuvwxyz"

UpperLetters == "ABCDEFGHIJKLMNOPQRSTUVWXYZ"

upper_char(c) ==
    IF \E i \in 1..Len(LowerLetters) : Char(LowerLetters, i) = c
    THEN Char(UpperLetters, CHOOSE i \in 1..Len(LowerLetters) : Char(LowerLetters, i) = c)
    ELSE c

RECURSIVE upper(_)
\* s.upper()
upper(s) ==
    IF s = "" THEN "" ELSE upper_char(Char(s, 1)) \o upper(SubSeq(s, 2, Len(s)))

RECURSIVE str_replace(_, _, _)
\* s.replace(old, new) for a non-empty old: the occurrences are found from
\* left to right and do not overlap
str_replace(s, old, new) ==
    LET occurs(i) == SubSeq(s, i, i + Len(old) - 1) = old
        starts == {i \in 1..(Len(s) - Len(old) + 1) : occurs(i)}
    IN IF starts = {} THEN s
       ELSE LET first == CHOOSE i \in starts : \A j \in starts : i <= j
            IN SubSeq(s, 1, first - 1) \o new
                 \o str_replace(SubSeq(s, first + Len(old), Len(s)), old, new)

RECURSIVE str_join(_, _)
\* sep.join(parts)
str_join(sep, parts) ==
    IF parts = <<>> THEN ""
    ELSE IF Len(parts) = 1 THEN parts[1]
    ELSE parts[1] \o sep \o str_join(sep, Tail(parts))

\* A dict is the sequence of its (key, value) items in insertion order.
dict_has(d, k) == \E i \in 1..Len(d) : d[i][1] = k

dict_get(d, k, default) ==
    IF dict_has(d, k) THEN d[CHOOSE i \in 1..Len(d) : d[i][1] = k][2] ELSE default

\* d[k] = v: an existing key keeps its place and takes the new value
dict_set(d, k, v) ==
    IF dict_has(d, k)
    THEN [i \in 1..Len(d) |-> IF d[i][1] = k THEN <<k, v>> ELSE d[i]]
    ELSE Append(d, <<k, v>>)

(***************************************************************************)
(* replace_filter_expressions                                              *)
(***************************************************************************)
date_func == "TO_CHAR(CURRENT_DATE, 'YYYYMMDD')"

\* replace_target with the quotes of the token forgotten
replace_target_unquoted(filter_str, alias, item) ==
    str_replace(filter_str, item[1], alias \o "." \o item[2])

\* one iteration of the loop over target_to_source_map.items()
replace_target(filter_str, alias, item) ==
    str_replace(filter_str, "\"" \o item[1] \o "\"", alias \o "." \o item[2])

RECURSIVE replace_targets(_, _, _)
replace_targets(filter_str, alias, items) ==
    IF items = <<>> THEN filter_str
    ELSE replace_targets(replace_target(filter_str, alias, items[1]), alias, Tail(items))

replace_today(filter_str) == str_replace(filter_str, "\"today\"", date_func)

replace_filter_expressions(filter_str, alias, target_to_source_map) ==
    IF filter_str = "" THEN ""
    ELSE replace_targets(replace_today(filter_str), alias, target_to_source_map)

(***************************************************************************)
(* process_file: the data sources                                          *)
(***************************************************************************)
RECURSIVE build_data_sources(_, _)
\* the loop over data_sources.findall('./DataSource'); a DataSource without
\* columnObject adds no entry
build_data_sources(sources, d) ==
    IF sources = <<>> THEN d
    ELSE LET ds == Head(sources)
             column_obj == ds.columnObject
         IN build_data_sources(
                Tail(sources),
                IF column_obj = None THEN d
                ELSE dict_set(d, ds.id,
                              fstr(column_obj[1].schemaName) \o "."
                                  \o fstr(column_obj[1].columnObjectName)))

data_sources_of(doc) ==
    IF doc.dataSources = None THEN <<>>
    ELSE build_data_sources(doc.dataSources[1], <<>>)

(***************************************************************************)
(* process_file: one calculationView                                       *)
(***************************************************************************)
JoinView == "Calculation:JoinView"

ProjectionView == "Calculation:ProjectionView"

view_id_of(calc_view) == attr_get(calc_view.id, "UnknownView")

join_type_map ==
    [INNER |-> "INNER JOIN", LEFTOUTER |-> "LEFT JOIN",
     RIGHTOUTER |-> "RIGHT JOIN", FULLOUTER |-> "FULL JOIN"]

join_type_of(calc_view) ==
    LET join_type_xml == upper(attr_get(calc_view.joinType, "inner"))
    IN IF join_type_xml \in DOMAIN join_type_map
       THEN join_type_map[join_type_xml]
       ELSE "INNER JOIN"

\* the (source, target) pairs of the mapping children that carry both
mapping_pairs_of(mappings) ==
    LET kept == SelectSeq(mappings, LAMBDA m : truthy(m.source) /\ truthy(m.target))
    IN [k \in 1..Len(kept) |-> <<kept[k].source[1], kept[k].target[1]>>]

\* alias = f"T{i+1}" for enumerate's 0-based i; here i counts from 1
join_alias(i) == "T" \o ToString(i)

table_fullname_of(data_sources_dict, ds_id) ==
    dict_get(data_sources_dict, Some(ds_id), ds_id)

RECURSIVE input_info_from(_, _, _)
\* the loop "for i, inp in enumerate(inputs)" from input i on
input_info_from(inputs, i, data_sources_dict) ==
    IF i > Len(inputs) THEN <<>>
    ELSE LET node_ref == inputs[i].node
         IN (IF ~truthy(node_ref) THEN <<>>
             ELSE << [alias |-> join_alias(i),
                      table_fullname |->
                          table_fullname_of(data_sources_dict, lstrip(node_ref[1], "#")),
                      mapping_pairs |-> mapping_pairs_of(inputs[i].mappings)] >>)
            \o input_info_from(inputs, i + 1, data_sources_dict)

\* select_column without the test src == tgt
select_column_always_as(alias, src, tgt) == alias \o "." \o src \o " AS " \o tgt

select_column(alias, src, tgt) ==
    IF src = tgt THEN alias \o "." \o src
    ELSE alias \o "." \o src \o " AS " \o tgt

columns_of(alias, map_list) ==
    [k \in 1..Len(map_list) |-> select_column(alias, map_list[k][1], map_list[k][2])]

RECURSIVE join_select_columns(_)
join_select_columns(input_info) ==
    IF input_info = <<>> THEN <<>>
    ELSE columns_of(input_info[1].alias, input_info[1].mapping_pairs)
         \o join_select_columns(Tail(input_info))

from_clause_of(table, alias) == "FROM " \o table \o " AS " \o alias

on_clause_of(base_alias, current_alias, join_attributes) ==
    str_join(" AND ",
             [k \in 1..Len(join_attributes) |->
                 base_alias \o "." \o fstr(join_attributes[k]) \o " = "
                     \o current_alias \o "." \o fstr(join_attributes[k])])

\* join_clauses_of with each input joined to the one before it
join_clauses_chained(input_info, join_type, join_attributes) ==
    IF Len(input_info) = 1 THEN <<>>
    ELSE [j \in 1..(Len(input_info) - 1) |->
             join_type \o " " \o input_info[j + 1].table_fullname \o " AS "
                 \o input_info[j + 1].alias \o " ON "
                 \o on_clause_of(input_info[j].alias, input_info[j + 1].alias,
                                 join_attributes)]

join_clauses_of(input_info, join_type, join_attributes) ==
    IF Len(input_info) = 1 THEN <<>>
    ELSE [j \in 1..(Len(input_info) - 1) |->
             join_type \o " " \o input_info[j + 1].table_fullname \o " AS "
                 \o input_info[j + 1].alias \o " ON "
                 \o on_clause_of(input_info[1].alias, input_info[j + 1].alias,
                                 join_attributes)]

block_lines(view_id, select_columns, from_clause, tail_lines) ==
    << view_id \o " AS (",
       "    SELECT",
       "        " \o str_join(",\n        ", select_columns),
       "    " \o from_clause >>
    \o [k \in 1..Len(tail_lines) |-> "    " \o tail_lines[k]]
    \o << ")," >>

NoLocals ==
    [outcome |-> "none", view_id |-> "", input_info |-> <<>>,
     select_columns |-> <<>>, from_clause |-> "", join_clauses |-> <<>>,
     target_to_source_map |-> <<>>, where_clause |-> "", block |-> ""]

\* the JoinView branch: "skip" is the continue of an empty input_info
process_join_view(calc_view, data_sources_dict) ==
    LET input_info == input_info_from(calc_view.inputs, 1, data_sources_dict)
        select_columns == join_select_columns(input_info)
        from_clause == from_clause_of(input_info[1].table_fullname, input_info[1].alias)
        join_clauses == join_clauses_of(input_info, join_type_of(calc_view),
                                        calc_view.joinAttributes)
    IN IF input_info = <<>>
       THEN [NoLocals EXCEPT !.outcome = "skip", !.view_id = view_id_of(calc_view)]
       ELSE [NoLocals EXCEPT
                !.outcome = "append",
                !.view_id = view_id_of(calc_view),
                !.input_info = input_info,
                !.select_columns = select_columns,
                !.from_clause = from_clause,
                !.join_clauses = join_clauses,
                !.block = str_join("\n", block_lines(view_id_of(calc_view), select_columns,
                                                     from_clause, join_clauses))]

RECURSIVE target_to_source_from(_, _)
target_to_source_from(pairs, d) ==
    IF pairs = <<>> THEN d
    ELSE target_to_source_from(Tail(pairs), dict_set(d, pairs[1][2], pairs[1][1]))

projection_alias == "J1"

\* the ProjectionView branch: "skip" is the continue of an empty input list,
\* "raise" the AttributeError of None.lstrip (no node attribute) or of
\* None.strip (a filter element without text)
process_projection_view(calc_view, data_sources_dict) ==
    LET proj_input == calc_view.inputs[1]
        node_ref == proj_input.node
        node_id == lstrip(node_ref[1], "#")
        projection_mappings == mapping_pairs_of(proj_input.mappings)
        select_columns == columns_of(projection_alias, projection_mappings)
        target_to_source_map == target_to_source_from(projection_mappings, <<>>)
        from_clause == from_clause_of(node_id, projection_alias)
        filter_node == calc_view.filter
        filter_expr_sql ==
            IF filter_node = None THEN ""
            ELSE replace_filter_expressions(strip(filter_node[1][1]), projection_alias,
                                            target_to_source_map)
        where_clause ==
            IF filter_expr_sql # "" THEN "WHERE\n        " \o filter_expr_sql ELSE ""
        tail_lines == IF where_clause # "" THEN <<where_clause>> ELSE <<>>
    IN IF calc_view.inputs = <<>>
       THEN [NoLocals EXCEPT !.outcome = "skip", !.view_id = view_id_of(calc_view)]
       ELSE IF node_ref = None \/ (filter_node # None /\ filter_node[1] = None)
       THEN [NoLocals EXCEPT !.outcome = "raise", !.view_id = view_id_of(calc_view)]
       ELSE [NoLocals EXCEPT
                !.outcome = "append",
                !.view_id = view_id_of(calc_view),
                !.select_columns = select_columns,
                !.from_clause = from_clause,
                !.target_to_source_map = target_to_source_map,
                !.where_clause = where_clause,
                !.block = str_join("\n", block_lines(view_id_of(calc_view), select_columns,
                                                     from_clause, tail_lines))]

\* one iteration of the loop over the calculationView children
process_view(calc_view, data_sources_dict) ==
    IF calc_view.xsi_type = Some(JoinView)
    THEN process_join_view(calc_view, data_sources_dict)
    ELSE IF calc_view.xsi_type = Some(ProjectionView)
    THEN process_projection_view(calc_view, data_sources_dict)
    ELSE [NoLocals EXCEPT !.outcome = "ignore", !.view_id = view_id_of(calc_view)]

sql_query_of(all_blocks) == "WITH\n\n" \o str_join("\n\n", all_blocks)

(***************************************************************************)
(* The input documents                                                     *)
(***************************************************************************)
MaxViews == 2

MaxInputs == 3

MaxJoinAttributes == 2

MaxMappings == 2

SeqUpTo(S, n) == UNION {[1..k -> S] : k \in 0..n}

Mapping(source, target) == [source |-> source, target |-> target]

Input(node, mappings) == [node |-> node, mappings |-> mappings]

NoFilter == None

\* <filter/>: an element whose text is None
FilterNoText == Some(None)

FilterText(t) == Some(Some(t))

View(xsi_type, id, joinType, inputs, joinAttributes, filter) ==
    [xsi_type |-> xsi_type, id |-> id, joinType |-> joinType, inputs |-> inputs,
     joinAttributes |-> joinAttributes, filter |-> filter]

DataSource(id, columnObject) == [id |-> id, columnObject |-> columnObject]

ColumnObject(schemaName, columnObjectName) ==
    Some([schemaName |-> schemaName, columnObjectName |-> columnObjectName])

Document(well_formed, dataSources, calculationViews) ==
    [well_formed |-> well_formed, dataSources |-> dataSources,
     calculationViews |-> calculationViews]

DataSourcesChoices ==
    { None,
      Some(<< DataSource(Some("CSKB"), ColumnObject(Some("SAPABAP1"), Some("CSKB"))),
              DataSource(Some("CSKT"), None) >>) }

MappingSet ==
    { Mapping(Some("MANDT"), Some("MANDT")),
      Mapping(Some("KTOPL"), Some("ChartOfAccounts")),
      Mapping(Some("KOKRS"), Some("ChartOfAccounts")),
      Mapping(None, Some("SPRAS")) }

OneMapping == << Mapping(Some("MANDT"), Some("MANDT")) >>

NodeRefs == {None, Some("#CSKB"), Some("#Join_1")}

JoinTypes ==
    {None, Some("inner"), Some("leftOuter"), Some("RIGHTOUTER"), Some("fullOuter"),
     Some("bogus")}

JoinAttributeNames == {Some("MANDT"), Some("KOKRS")}

FilterChoices ==
    { NoFilter, FilterNoText, FilterText("  "),
      FilterText(" \"today\" <= \"DATBI\" AND \"ChartOfAccounts\" = 'X' ") }

OtherTypes == {None, Some("Calculation:AggregationView")}

\* views of every kind with few details: the nodes of the documents that
\* hold several views
PlainInputs == SeqUpTo({Input(n, OneMapping) : n \in {None, Some("#CSKB")}}, 2)

PlainViews ==
    {View(t, None, None, << Input(Some("#CSKB"), OneMapping) >>, <<>>, NoFilter) :
        t \in OtherTypes}
    \cup {View(Some(JoinView), None, None, ins, << Some("MANDT") >>, NoFilter) :
            ins \in PlainInputs}
    \cup {View(Some(ProjectionView), None, None, ins, <<>>, f) :
            ins \in PlainInputs, f \in {NoFilter, FilterNoText}}

\* join views with every join type, join attribute list and input list
JoinViews ==
    {View(Some(JoinView), Some("Join_2"), jt, ins, ja, NoFilter) :
        jt \in JoinTypes,
        ins \in SeqUpTo({Input(n, OneMapping) : n \in NodeRefs}, MaxInputs),
        ja \in SeqUpTo(JoinAttributeNames, MaxJoinAttributes)}

\* views with every list of mappings
MappingViews ==
    {View(Some(JoinView), Some("Join_3"), Some("leftOuter"),
          << Input(Some("#CSKB"), m1), Input(Some("#CSKT"), m2) >>,
          << Some("MANDT") >>, NoFilter) :
        m1 \in SeqUpTo(MappingSet, MaxMappings), m2 \in SeqUpTo(MappingSet, MaxMappings)}
    \cup {View(Some(ProjectionView), id, None, << Input(n, m) >>, <<>>, f) :
            id \in {None, Some("Proj_1")},
            n \in NodeRefs \cup {Some(""), Some("##CSKB")},
            m \in SeqUpTo(MappingSet, MaxMappings), f \in FilterChoices}

\* the k-th view of a document that holds several is given the id Vk
WithIds(views) == [k \in 1..Len(views) |-> [views[k] EXCEPT !.id = Some("V" \o ToString(k))]]

ViewLists ==
    {WithIds(vs) : vs \in SeqUpTo(PlainViews, MaxViews)}
    \cup {<<v>> : v \in JoinViews \cup MappingViews}

Documents ==
    { Document(FALSE, None, None) }
    \cup {Document(TRUE, ds, None) : ds \in DataSourcesChoices}
    \cup {Document(TRUE, ds, Some(vs)) : ds \in DataSourcesChoices, vs \in ViewLists}

(***************************************************************************)
(* process_file as a state machine                                         *)
(***************************************************************************)
VARIABLES
    \* process_file
    input_doc, pc, data_sources_dict, view_index, all_sql_blocks, locals,
    output_file, stdout,
    \* replace_filter_expressions
    rf_call, rf_pc, rf_filter_str, rf_k,
    \* __main__
    args, tree, dirs, walk, root, files, written, processed, main_pc

pfVars == <<input_doc, pc, data_sources_dict, view_index, all_sql_blocks, locals,
            output_file, stdout>>

rfVars == <<rf_call, rf_pc, rf_filter_str, rf_k>>

mainVars == <<args, tree, dirs, walk, root, files, written, processed, main_pc>>

vars == <<pfVars, rfVars, mainVars>>

input_file == "view.calculationview"

no_views_message == "Aucune balise <calculationViews> trouvée."

empty_message == "[" \o input_file \o "] Aucune définition de CalculationView exploitable trouvée."

success_message == "[" \o input_file \o "] Requêtes SQL générées avec succès."

OldOutput == Some("-- old")

NoCall == [filter_str |-> "", alias |-> "", target_to_source_map |-> <<>>, tokens |-> <<>>]

rfIdle ==
    /\ rf_call = NoCall
    /\ rf_pc = "idle"
    /\ rf_filter_str = ""
    /\ rf_k = 0

NoArgs == [input_path |-> "", output |-> None, recursive |-> FALSE]

mainIdle ==
    /\ args = NoArgs
    /\ tree = {}
    /\ dirs = {}
    /\ walk = <<>>
    /\ root = None
    /\ files = {}
    /\ written = <<>>
    /\ processed = <<>>
    /\ main_pc = "idle"

pfIdle ==
    /\ input_doc = Document(FALSE, None, None)
    /\ pc = "idle"
    /\ data_sources_dict = <<>>
    /\ view_index = 0
    /\ all_sql_blocks = <<>>
    /\ locals = NoLocals
    /\ output_file = None
    /\ stdout = <<>>

Init ==
    /\ rfIdle
    /\ mainIdle
    /\ input_doc \in Documents
    /\ pc = "parse"
    /\ data_sources_dict = <<>>
    /\ view_index = 0
    /\ all_sql_blocks = <<>>
    /\ locals = NoLocals
    /\ output_file \in {None, OldOutput}
    /\ stdout = <<>>

\* ET.parse(input_file) of a well-formed document
Parse ==
    /\ pc = "parse"
    /\ input_doc.well_formed
    /\ pc' = "data_sources"
    /\ UNCHANGED <<input_doc, data_sources_dict, view_index, all_sql_blocks, locals,
                   output_file, stdout>>
    /\ UNCHANGED <<rfVars, mainVars>>

\* ET.parse(input_file) raises ParseError
ParseError ==
    /\ pc = "parse"
    /\ ~input_doc.well_formed
    /\ pc' = "raised"
    /\ UNCHANGED <<input_doc, data_sources_dict, view_index, all_sql_blocks, locals,
                   output_file, stdout>>
    /\ UNCHANGED <<rfVars, mainVars>>

BuildDataSources ==
    /\ pc = "data_sources"
    /\ data_sources_dict' = data_sources_of(input_doc)
    /\ pc' = "find_views"
    /\ UNCHANGED <<input_doc, view_index, all_sql_blocks, locals, output_file, stdout>>
    /\ UNCHANGED <<rfVars, mainVars>>

NoCalculationViews ==
    /\ pc = "find_views"
    /\ input_doc.calculationViews = None
    /\ stdout' = Append(stdout, no_views_message)
    /\ pc' = "returned"
    /\ UNCHANGED <<input_doc, data_sources_dict, view_index, all_sql_blocks, locals,
                   output_file>>
    /\ UNCHANGED <<rfVars, mainVars>>

EnterLoop ==
    /\ pc = "find_views"
    /\ input_doc.calculationViews # None
    /\ all_sql_blocks' = <<>>
    /\ view_index' = 1
    /\ pc' = "loop"
    /\ UNCHANGED <<input_doc, data_sources_dict, locals, output_file, stdout>>
    /\ UNCHANGED <<rfVars, mainVars>>

\* one iteration of "for calc_view in ...findall('./calculationView')"
ProcessView ==
    /\ pc = "loop"
    /\ view_index <= Len(input_doc.calculationViews[1])
    /\ LET r == process_view(input_doc.calculationViews[1][view_index], data_sources_dict)
       IN /\ locals' = r
          /\ \/ /\ r.outcome = "append"
                /\ all_sql_blocks' = Append(all_sql_blocks, r.block)
                /\ view_index' = view_index + 1
                /\ pc' = "loop"
             \/ /\ r.outcome \in {"skip", "ignore"}
                /\ view_index' = view_index + 1
                /\ UNCHANGED <<all_sql_blocks, pc>>
             \/ /\ r.outcome = "raise"
                /\ pc' = "raised"
                /\ UNCHANGED <<all_sql_blocks, view_index>>
    /\ UNCHANGED <<input_doc, data_sources_dict, output_file, stdout>>
    /\ UNCHANGED <<rfVars, mainVars>>

NoBlocks ==
    /\ pc = "loop"
    /\ view_index > Len(input_doc.calculationViews[1])
    /\ all_sql_blocks = <<>>
    /\ stdout' = Append(stdout, empty_message)
    /\ pc' = "returned"
    /\ UNCHANGED <<input_doc, data_sources_dict, view_index, all_sql_blocks, locals,
                   output_file>>
    /\ UNCHANGED <<rfVars, mainVars>>

WriteOutput ==
    /\ pc = "loop"
    /\ view_index > Len(input_doc.calculationViews[1])
    /\ all_sql_blocks # <<>>
    /\ stdout' = Append(stdout, success_message)
    /\ output_file' = Some(sql_query_of(all_sql_blocks))
    /\ pc' = "returned"
    /\ UNCHANGED <<input_doc, data_sources_dict, view_index, all_sql_blocks, locals>>
    /\ UNCHANGED <<rfVars, mainVars>>

Next ==
    \/ Parse
    \/ ParseError
    \/ BuildDataSources
    \/ NoCalculationViews
    \/ EnterLoop
    \/ ProcessView
    \/ NoBlocks
    \/ WriteOutput

Spec == Init /\ [][Next]_vars

\* process_file(input_file, output_file) as a whole: whether it returns or
\* raises, and the text it writes (None: the output file is not opened)
RECURSIVE run_views(_, _, _, _)
run_views(views, k, data_sources, blocks) ==
    IF k > Len(views)
    THEN [outcome |-> "returned",
          text |-> IF blocks = <<>> THEN None ELSE Some(sql_query_of(blocks))]
    ELSE LET r == process_view(views[k], data_sources)
         IN IF r.outcome = "raise" THEN [outcome |-> "raised", text |-> None]
            ELSE run_views(views, k + 1, data_sources,
                           IF r.outcome = "append" THEN Append(blocks, r.block) ELSE blocks)

run_process_file(doc) ==
    IF ~doc.well_formed THEN [outcome |-> "raised", text |-> None]
    ELSE IF doc.calculationViews = None THEN [outcome |-> "returned", text |-> None]
    ELSE run_views(doc.calculationViews[1], 1, data_sources_of(doc), <<>>)

(***************************************************************************)
(* replace_filter_expressions as a state machine                           *)
(***************************************************************************)
MaxTokens == 3

Quoted(name) == "\"" \o name \o "\""

Tokens ==
    {Quoted("today"), Quoted("DATBI"), Quoted("ChartOfAccounts"), Quoted("DATAB"),
     "today", "<=", "AND"}

TargetToSourceMaps ==
    { <<>>,
      << <<"DATBI", "DATBI">> >>,
      << <<"today", "HEUTE">>, <<"DATBI", "DATAB">> >>,
      << <<"ChartOfAccounts", "KTOPL">>, <<"DATBI", "DATBI">> >> }

Aliases == {projection_alias, "T2"}

\* the filter is the tokens separated by single spaces
FilterCalls ==
    {[tokens |-> ts, filter_str |-> str_join(" ", ts), alias |-> a,
      target_to_source_map |-> m] :
        ts \in SeqUpTo(Tokens, MaxTokens), a \in Aliases, m \in TargetToSourceMaps}

InitFilter ==
    /\ pfIdle
    /\ mainIdle
    /\ rf_call \in FilterCalls
    /\ rf_pc = "call"
    /\ rf_filter_str = rf_call.filter_str
    /\ rf_k = 0

\* if not filter_str: return ""
ReturnEmpty ==
    /\ rf_pc = "call"
    /\ rf_filter_str = ""
    /\ rf_pc' = "returned"
    /\ UNCHANGED <<rf_call, rf_filter_str, rf_k>>
    /\ UNCHANGED <<pfVars, mainVars>>

ReplaceToday ==
    /\ rf_pc = "call"
    /\ rf_filter_str # ""
    /\ rf_filter_str' = replace_today(rf_filter_str)
    /\ rf_k' = 1
    /\ rf_pc' = "loop"
    /\ UNCHANGED rf_call
    /\ UNCHANGED <<pfVars, mainVars>>

ReplaceTarget ==
    /\ rf_pc = "loop"
    /\ rf_k <= Len(rf_call.target_to_source_map)
    /\ rf_filter_str' = replace_target(rf_filter_str, rf_call.alias,
                                       rf_call.target_to_source_map[rf_k])
    /\ rf_k' = rf_k + 1
    /\ UNCHANGED <<rf_call, rf_pc>>
    /\ UNCHANGED <<pfVars, mainVars>>

ReturnFilter ==
    /\ rf_pc = "loop"
    /\ rf_k > Len(rf_call.target_to_source_map)
    /\ rf_pc' = "returned"
    /\ UNCHANGED <<rf_call, rf_filter_str, rf_k>>
    /\ UNCHANGED <<pfVars, mainVars>>

NextFilter ==
    \/ ReturnEmpty
    \/ ReplaceToday
    \/ ReplaceTarget
    \/ ReturnFilter

SpecFilter == InitFilter /\ [][NextFilter]_vars

(***************************************************************************)
(* os.path and the file tree                                               *)
(***************************************************************************)
lower_char(c) ==
    IF \E i \in 1..Len(UpperLetters) : Char(UpperLetters, i) = c
    THEN Char(LowerLetters, CHOOSE i \in 1..Len(UpperLetters) : Char(UpperLetters, i) = c)
    ELSE c

RECURSIVE lower(_)
\* s.lower()
lower(s) ==
    IF s = "" THEN "" ELSE lower_char(Char(s, 1)) \o lower(SubSeq(s, 2, Len(s)))

\* s.rfind(ch) + 1: the last position of ch in s, 0 when there is none
last_index(s, ch) ==
    IF \E i \in 1..Len(s) : Char(s, i) = ch
    THEN CHOOSE i \in 1..Len(s) :
             Char(s, i) = ch /\ \A j \in (i + 1)..Len(s) : Char(s, j) # ch
    ELSE 0

\* os.path.join(a, b) of a directory and a relative path
path_join(a, b) == a \o "/" \o b

\* os.path.dirname(p)
path_dirname(p) == SubSeq(p, 1, last_index(p, "/") - 1)

\* os.path.splitext(p): the extension starts at the last dot of the last
\* component, unless only dots precede it there
path_splitext(p) ==
    LET sep == last_index(p, "/")
        dot == last_index(p, ".")
    IN IF dot > sep /\ \E i \in (sep + 1)..(dot - 1) : Char(p, i) # "."
       THEN << SubSeq(p, 1, dot - 1), SubSeq(p, dot, Len(p)) >>
       ELSE << p, "" >>

\* os.path.relpath(path, start) of a path below start
path_relpath(path, start) == SubSeq(path, Len(start) + 2, Len(path))

\* the directories os.makedirs(d, exist_ok=True) leaves in place
made_dirs(d) ==
    {SubSeq(d, 1, i - 1) : i \in {j \in 2..Len(d) : Char(d, j) = "/"}} \cup {d}

qualifying_ext(name) == lower(path_splitext(name)[2]) \in {".xml", ".calculationview"}

(***************************************************************************)
(* __main__ as a state machine                                             *)
(***************************************************************************)
OkDoc ==
    Document(TRUE, None,
             Some(<< View(Some(JoinView), Some("Join_1"), None,
                          << Input(Some("#CSKB"), OneMapping) >>, <<>>, NoFilter) >>))

NoViewsDoc == Document(TRUE, None, None)

MalformedDoc == Document(FALSE, None, None)

FileDocs == {OkDoc, NoViewsDoc, MalformedDoc}

File(dir, name, doc) == [dir |-> dir, name |-> name, doc |-> doc]

\* the trees: each of the files below is absent or holds one of the documents
Trees ==
    {  {File("in", "a.xml", a[1]) : a \in {x \in {da} : x # None}}
       \cup {File("in", "b.CalculationView", b[1]) : b \in {x \in {db} : x # None}}
       \cup {File("in", "notes.txt", n[1]) : n \in {x \in {dn} : x # None}}
       \cup {File("in/sub", "d.xml", d[1]) : d \in {x \in {dd} : x # None}} :
        da \in {None} \cup {Some(x) : x \in FileDocs},
        db \in {None} \cup {Some(x) : x \in FileDocs},
        dn \in {None, Some(OkDoc)},
        dd \in {None} \cup {Some(x) : x \in FileDocs} }

InputPaths == {"in", "in/a.xml", "in/notes.txt", "nowhere"}

OutputDir == "out"

InitMain ==
    /\ pfIdle
    /\ rfIdle
    /\ args \in [input_path : InputPaths, output : {None, Some(OutputDir)},
                 recursive : BOOLEAN]
    /\ tree \in Trees
    /\ dirs \in {{"in", "in/sub"} \cup extra : extra \in SUBSET {"in/sub/sub", OutputDir}}
    /\ walk = <<>>
    /\ root = None
    /\ files = {}
    /\ written = <<>>
    /\ processed = <<>>
    /\ main_pc = "start"

isfile(path) == \E f \in tree : path_join(f.dir, f.name) = path

isdir(path) == path \in dirs

doc_at(path) == (CHOOSE f \in tree : path_join(f.dir, f.name) = path).doc

Outcome(in_file, out_file, outcome) ==
    [in_file |-> in_file, out_file |-> out_file, outcome |-> outcome]

\* process_file(in_file, out_file) with the directories now_dirs in place:
\* a raise of process_file or of open(out_file, 'w') ends the program
CallProcessFile(in_file, out_file, now_dirs, after) ==
    LET r == run_process_file(doc_at(in_file))
        parent == path_dirname(out_file)
    IN \/ /\ r.outcome = "raised"
          /\ processed' = Append(processed, Outcome(in_file, out_file, "raised"))
          /\ main_pc' = "raised"
          /\ UNCHANGED written
       \/ /\ r.outcome = "returned"
          /\ r.text = None
          /\ processed' = Append(processed, Outcome(in_file, out_file, "no_output"))
          /\ main_pc' = after
          /\ UNCHANGED written
       \/ /\ r.outcome = "returned"
          /\ r.text # None
          /\ parent # "" /\ parent \notin now_dirs
          /\ processed' = Append(processed, Outcome(in_file, out_file, "open_failed"))
          /\ main_pc' = "raised"
          /\ UNCHANGED written
       \/ /\ r.outcome = "returned"
          /\ r.text # None
          /\ parent = "" \/ parent \in now_dirs
          /\ processed' = Append(processed, Outcome(in_file, out_file, "written"))
          /\ written' = (out_file :> r.text[1]) @@ written
          /\ main_pc' = after

\* input_path is a file with another extension: sys.exit(1)
FileModeBadExtension ==
    /\ main_pc = "start"
    /\ isfile(args.input_path)
    /\ ~qualifying_ext(args.input_path)
    /\ main_pc' = "exit_1"
    /\ UNCHANGED <<args, tree, dirs, walk, root, files, written, processed>>
    /\ UNCHANGED <<pfVars, rfVars>>

\* input_path is a file
FileMode ==
    /\ main_pc = "start"
    /\ isfile(args.input_path)
    /\ qualifying_ext(args.input_path)
    /\ LET base_name == path_splitext(args.input_path)[1]
           out_path ==
               IF truthy(args.output)
               THEN IF isdir(args.output[1])
                    THEN path_join(args.output[1],
                                   SubSeq(base_name, last_index(base_name, "/") + 1,
                                          Len(base_name)) \o ".sql")
                    ELSE args.output[1]
               ELSE base_name \o ".sql"
       IN CallProcessFile(args.input_path, out_path, dirs, "done")
    /\ UNCHANGED <<args, tree, dirs, walk, root, files>>
    /\ UNCHANGED <<pfVars, rfVars>>

\* input_path is a directory: os.walk starts at it
DirectoryMode ==
    /\ main_pc = "start"
    /\ ~isfile(args.input_path)
    /\ isdir(args.input_path)
    /\ walk' = << args.input_path >>
    /\ main_pc' = "walk"
    /\ UNCHANGED <<args, tree, dirs, root, files, written, processed>>
    /\ UNCHANGED <<pfVars, rfVars>>

NoSuchPath ==
    /\ main_pc = "start"
    /\ ~isfile(args.input_path)
    /\ ~isdir(args.input_path)
    /\ main_pc' = "exit_1"
    /\ UNCHANGED <<args, tree, dirs, walk, root, files, written, processed>>
    /\ UNCHANGED <<pfVars, rfVars>>

Orders(S) == {o \in [1..Cardinality(S) -> S] : \A i, j \in 1..Cardinality(S) : o[i] = o[j] => i = j}

\* os.walk yields the next directory, top-down: its files, and its
\* sub-directories to visit next, in the order the system lists them
WalkNext ==
    /\ main_pc = "walk"
    /\ walk # <<>>
    /\ root' = Some(Head(walk))
    /\ files' = {f.name : f \in {g \in tree : g.dir = Head(walk)}}
    /\ \E subdirs \in Orders({d \in dirs : path_dirname(d) = Head(walk)}) :
           walk' = subdirs \o Tail(walk)
    /\ main_pc' = "files"
    /\ UNCHANGED <<args, tree, dirs, written, processed>>
    /\ UNCHANGED <<pfVars, rfVars>>

WalkEnd ==
    /\ main_pc = "walk"
    /\ walk = <<>>
    /\ main_pc' = "done"
    /\ UNCHANGED <<args, tree, dirs, walk, root, files, written, processed>>
    /\ UNCHANGED <<pfVars, rfVars>>

\* a file of the directory with another extension
SkipFile ==
    /\ main_pc = "files"
    /\ \E filename \in files :
           /\ ~qualifying_ext(filename)
           /\ files' = files \ {filename}
    /\ UNCHANGED <<args, tree, dirs, walk, root, written, processed, main_pc>>
    /\ UNCHANGED <<pfVars, rfVars>>

\* the out_file of in_file = root/filename in directory mode
walk_out_file(walk_root, filename) ==
    LET in_file == path_join(walk_root, filename)
        rel_path == path_relpath(in_file, args.input_path)
        base_name == path_splitext(rel_path)[1]
    IN IF truthy(args.output)
       THEN path_join(args.output[1], base_name \o ".sql")
       ELSE path_join(walk_root, base_name \o ".sql")

\* a .xml or .calculationview file of the directory
ConvertFile ==
    /\ main_pc = "files"
    /\ \E filename \in files :
           /\ qualifying_ext(filename)
           /\ files' = files \ {filename}
           /\ LET in_file == path_join(root[1], filename)
                  out_file == walk_out_file(root[1], filename)
                  now_dirs == IF truthy(args.output)
                              THEN dirs \cup made_dirs(path_dirname(out_file))
                              ELSE dirs
              IN /\ dirs' = now_dirs
                 /\ CallProcessFile(in_file, out_file, now_dirs, "files")
    /\ UNCHANGED <<args, tree, walk, root>>
    /\ UNCHANGED <<pfVars, rfVars>>

\* the files of the directory are done: without --recursive the walk stops
EndOfFiles ==
    /\ main_pc = "files"
    /\ files = {}
    /\ \/ /\ ~args.recursive
          /\ main_pc' = "done"
       \/ /\ args.recursive
          /\ main_pc' = "walk"
    /\ UNCHANGED <<args, tree, dirs, walk, root, files, written, processed>>
    /\ UNCHANGED <<pfVars, rfVars>>

NextMain ==
    \/ FileModeBadExtension
    \/ FileMode
    \/ DirectoryMode
    \/ NoSuchPath
    \/ WalkNext
    \/ WalkEnd
    \/ SkipFile
    \/ ConvertFile
    \/ EndOfFiles

SpecMain == InitMain /\ [][NextMain]_vars

(***************************************************************************)
(* Properties of process_file                                              *)
(***************************************************************************)
StartsWith(s, prefix) == Len(s) >= Len(prefix) /\ SubSeq(s, 1, Len(prefix)) = prefix

EndsWith(s, suffix) ==
    Len(s) >= Len(suffix) /\ SubSeq(s, Len(s) - Len(suffix) + 1, Len(s)) = suffix

Terminated == pc \in {"returned", "raised"}

HasViews == input_doc.well_formed /\ input_doc.calculationViews # None

Views == input_doc.calculationViews[1]

\* the view the last iteration of the loop worked on; locals holds what the
\* iteration computed
HasLast == locals.outcome # "none"

LastView == Views[IF locals.outcome = "raise" THEN view_index ELSE view_index - 1]

IsJoin(v) == v.xsi_type = Some(JoinView)

IsProjection(v) == v.xsi_type = Some(ProjectionView)

\* the inputs of a join that carry a node reference, in document order
RetainedInputs(v) == SelectSeq(v.inputs, LAMBDA inp : truthy(inp.node))

\* a node with a usable input: a join with a retained input, a projection
\* whose first input has a node attribute
HasUsableInput(v) ==
    \/ IsJoin(v) /\ RetainedInputs(v) # <<>>
    \/ IsProjection(v) /\ v.inputs # <<>> /\ v.inputs[1].node # None

\* the table a reference id names: its DataSourceTable entry, else the id
ResolvedTable(id) ==
    IF \E k \in 1..Len(data_sources_dict) : data_sources_dict[k][1] = Some(id)
    THEN data_sources_dict[CHOOSE k \in 1..Len(data_sources_dict) :
                               data_sources_dict[k][1] = Some(id)][2]
    ELSE id

\* the ids of the join and projection nodes with a usable input, in order
ExpectedBlockIds ==
    LET emitting == SelectSeq(Views, HasUsableInput)
    IN [k \in 1..Len(emitting) |-> attr_get(emitting[k].id, "UnknownView")]

\* the documents in which every filter element has a text
EveryFilterHasText ==
    HasViews => \A k \in 1..Len(Views) : Views[k].filter # FilterNoText

\* C1: when process_file ends on a document with a calculationViews
\* container, its blocks are, in order, one per join or projection node with
\* a usable input, block k named after the id of the k-th such node.  Stated
\* for the documents in which every filter element has a text
C1_BlocksInDeclarationOrder ==
    (Terminated /\ HasViews /\ EveryFilterHasText) =>
        /\ Len(all_sql_blocks) = Len(ExpectedBlockIds)
        /\ \A k \in 1..Len(all_sql_blocks) :
               StartsWith(all_sql_blocks[k], ExpectedBlockIds[k] \o " AS (")

\* C2: the k-th retained input of a join node has the alias Tk
C2_AliasByRetainedPosition ==
    (HasLast /\ IsJoin(LastView) /\ locals.outcome = "append") =>
        \A k \in 1..Len(locals.input_info) :
            locals.input_info[k].alias = "T" \o ToString(k)

\* C3: the FROM clause of a projection names the table its input id resolves
\* to, as the FROM clause of a join whose first input is that id does
C3_ProjectionResolvesLikeJoin ==
    (HasLast /\ IsProjection(LastView) /\ locals.outcome = "append") =>
        locals.from_clause =
            "FROM " \o ResolvedTable(lstrip(LastView.inputs[1].node[1], "#"))
                \o " AS " \o projection_alias

\* C4: a join or projection node with no usable input is skipped: no block
\* and no error, and the loop goes on to the next node
C4_NoUsableInputIsSkipped ==
    (HasLast /\ (IsJoin(LastView) \/ IsProjection(LastView)) /\ ~HasUsableInput(LastView)) =>
        /\ locals.outcome = "skip"
        /\ pc # "raised"

ExpectedJoinKeyword(joinType) ==
    CASE joinType = Some("leftOuter") -> "LEFT JOIN"
      [] joinType = Some("RIGHTOUTER") -> "RIGHT JOIN"
      [] joinType = Some("fullOuter") -> "FULL JOIN"
      [] OTHER -> "INNER JOIN"

RECURSIVE Conjunction(_, _, _)
\* base.a1 = cur.a1 AND base.a2 = cur.a2 AND ...
Conjunction(base, cur, names) ==
    IF names = <<>> THEN ""
    ELSE base \o "." \o names[1][1] \o " = " \o cur \o "." \o names[1][1]
         \o (IF Len(names) > 1 THEN " AND " \o Conjunction(base, cur, Tail(names)) ELSE "")

RECURSIVE LinesAfter(_)
LinesAfter(clauses) ==
    IF clauses = <<>> THEN "" ELSE "\n    " \o clauses[1] \o LinesAfter(Tail(clauses))

\* C5: the first retained input of a join is the FROM anchor, and the j-th
\* retained input (j > 1) yields the one clause
\* "<JT> table_j AS alias_j ON <cond_j>", cond_j equating, for every join
\* attribute in order, the column of the first retained input to that of
\* input j; the block ends with these clauses, one per line
C5_JoinClauses ==
    (HasLast /\ IsJoin(LastView) /\ locals.outcome = "append") =>
        LET retained == RetainedInputs(LastView)
            info == locals.input_info
            table(j) == ResolvedTable(lstrip(retained[j].node[1], "#"))
            JT == ExpectedJoinKeyword(LastView.joinType)
        IN /\ Len(info) = Len(retained)
           /\ locals.from_clause = "FROM " \o table(1) \o " AS " \o info[1].alias
           /\ Len(locals.join_clauses) = Len(retained) - 1
           /\ \A j \in 2..Len(retained) :
                  locals.join_clauses[j - 1] =
                      JT \o " " \o table(j) \o " AS " \o info[j].alias \o " ON "
                         \o Conjunction(info[1].alias, info[j].alias,
                                        LastView.joinAttributes)
           /\ EndsWith(all_sql_blocks[Len(all_sql_blocks)],
                       "\n    " \o locals.from_clause \o LinesAfter(locals.join_clauses)
                           \o "\n),")
           /\ (/\ LastView.joinType = Some("leftOuter")
               /\ LastView.joinAttributes = << Some("MANDT"), Some("KOKRS") >>
               /\ LastView.inputs = << Input(Some("#CSKB"), OneMapping),
                                       Input(Some("#Join_1"), OneMapping) >>
               /\ data_sources_dict # <<>>)
              => locals.from_clause \o " " \o locals.join_clauses[1] =
                     "FROM SAPABAP1.CSKB AS T1 LEFT JOIN Join_1 AS T2 ON T1.MANDT = T2.MANDT AND T1.KOKRS = T2.KOKRS"

C5_Witness ==
    /\ HasLast /\ IsJoin(LastView) /\ locals.outcome = "append"
    /\ Len(RetainedInputs(LastView)) = 3
    /\ Len(LastView.inputs) = 3
    /\ LastView.joinType = Some("leftOuter")
    /\ LastView.joinAttributes = << Some("MANDT"), Some("KOKRS") >>
    /\ locals.join_clauses[2] =
           "LEFT JOIN Join_1 AS T3 ON T1.MANDT = T3.MANDT AND T1.KOKRS = T3.KOKRS"

(***************************************************************************)
(* Properties of replace_filter_expressions                                *)
(***************************************************************************)
\* what a token becomes: the date function for "today", alias.source for a
\* quoted target of the lookup, itself otherwise
RewrittenToken(token, alias, lookup) ==
    IF token = Quoted("today") THEN "TO_CHAR(CURRENT_DATE, 'YYYYMMDD')"
    ELSE IF \E k \in 1..Len(lookup) : token = Quoted(lookup[k][1])
    THEN alias \o "." \o lookup[CHOOSE k \in 1..Len(lookup) : token = Quoted(lookup[k][1])][2]
    ELSE token

RECURSIVE SpacedTokens(_)
SpacedTokens(ts) ==
    IF ts = <<>> THEN ""
    ELSE ts[1] \o (IF Len(ts) > 1 THEN " " \o SpacedTokens(Tail(ts)) ELSE "")

\* C6: on a non-empty filter the result is the filter with every "today"
\* replaced by the date function and then every quoted target of the lookup
\* by alias.source, everything else unchanged; the date replacement wins over
\* a target named today
C6_FilterRewrite ==
    (rf_pc = "returned" /\ rf_call.filter_str # "") =>
        /\ rf_filter_str =
               SpacedTokens([k \in 1..Len(rf_call.tokens) |->
                                RewrittenToken(rf_call.tokens[k], rf_call.alias,
                                               rf_call.target_to_source_map)])
        /\ (/\ rf_call.filter_str = "\"today\" <= \"DATBI\""
            /\ rf_call.target_to_source_map = << <<"DATBI", "DATBI">> >>
            /\ rf_call.alias = "J1")
           => rf_filter_str = "TO_CHAR(CURRENT_DATE, 'YYYYMMDD') <= J1.DATBI"

C6_Witness ==
    /\ rf_pc = "returned"
    /\ rf_call.filter_str = "\"today\" <= \"DATBI\""
    /\ rf_call.target_to_source_map = << <<"today", "HEUTE">>, <<"DATBI", "DATAB">> >>
    /\ rf_call.alias = "J1"
    /\ rf_filter_str = "TO_CHAR(CURRENT_DATE, 'YYYYMMDD') <= J1.DATAB"

(***************************************************************************)
(* Properties of process_file: the SELECT list and the written script      *)
(***************************************************************************)
\* the mapping children that carry both a source and a target
CompletePairs(inp) ==
    SelectSeq(inp.mappings,
              LAMBDA m : m.source # None /\ m.source # <<"">>
                         /\ m.target # None /\ m.target # <<"">>)

RenderedPair(alias, m) ==
    IF m.source = m.target THEN alias \o "." \o m.source[1]
    ELSE alias \o "." \o m.source[1] \o " AS " \o m.target[1]

RECURSIVE ExpectedColumns(_, _, _)
\* the entries for inputs k.. of ins, aliases[k] being the alias of input k
ExpectedColumns(ins, aliases, k) ==
    IF k > Len(ins) THEN <<>>
    ELSE [n \in 1..Len(CompletePairs(ins[k])) |->
             RenderedPair(aliases[k], CompletePairs(ins[k])[n])]
         \o ExpectedColumns(ins, aliases, k + 1)

RECURSIVE CommaLines(_)
CommaLines(cols) ==
    IF cols = <<>> THEN ""
    ELSE cols[1] \o (IF Len(cols) > 1 THEN ",\n        " \o CommaLines(Tail(cols)) ELSE "")

\* the source of the last pair that declares the target
LastSourceFor(pairs, target) ==
    pairs[CHOOSE n \in 1..Len(pairs) :
              /\ pairs[n].target[1] = target
              /\ \A later \in (n + 1)..Len(pairs) : pairs[later].target[1] # target].source[1]

\* C7: the SELECT list of an emitted block has one entry per mapping pair
\* with a source and a target, in declaration order, input after input,
\* "alias.source" when source = target and "alias.source AS target"
\* otherwise; the lookup of a projection maps each target to the source of
\* the last pair that declares it
C7_SelectList ==
    (HasLast /\ locals.outcome = "append") =>
        LET ins == IF IsJoin(LastView) THEN RetainedInputs(LastView)
                   ELSE << LastView.inputs[1] >>
            aliases == IF IsJoin(LastView)
                       THEN [k \in 1..Len(locals.input_info) |-> locals.input_info[k].alias]
                       ELSE << "J1" >>
            expected == ExpectedColumns(ins, aliases, 1)
        IN /\ Len(aliases) = Len(ins)
           /\ Len(locals.select_columns) = Len(expected)
           /\ \A n \in 1..Len(expected) : locals.select_columns[n] = expected[n]
           /\ StartsWith(all_sql_blocks[Len(all_sql_blocks)],
                         locals.view_id \o " AS (\n    SELECT\n        "
                             \o CommaLines(expected) \o "\n    FROM ")
           /\ IsProjection(LastView) =>
                  LET pairs == CompletePairs(LastView.inputs[1])
                      lookup == locals.target_to_source_map
                  IN /\ {lookup[n][1] : n \in 1..Len(lookup)}
                            = {pairs[n].target[1] : n \in 1..Len(pairs)}
                     /\ \A n \in 1..Len(lookup) :
                            /\ lookup[n][2] = LastSourceFor(pairs, lookup[n][1])
                            /\ \A other \in 1..Len(lookup) :
                                   lookup[other][1] = lookup[n][1] => other = n

\* a join whose two inputs each declare a bare and a renamed pair
C7_WitnessJoin ==
    /\ HasLast /\ IsJoin(LastView) /\ locals.outcome = "append"
    /\ locals.select_columns =
           << "T1.MANDT", "T1.KTOPL AS ChartOfAccounts",
              "T2.KOKRS AS ChartOfAccounts", "T2.MANDT" >>

\* a projection in which two pairs declare the same target
C7_Witness ==
    /\ HasLast /\ IsProjection(LastView) /\ locals.outcome = "append"
    /\ locals.select_columns = << "J1.KTOPL AS ChartOfAccounts", "J1.KOKRS AS ChartOfAccounts" >>
    /\ locals.target_to_source_map = << <<"ChartOfAccounts", "KOKRS">> >>

Written == output_file \notin {None, OldOutput}

\* C8: the output file is written iff a block was produced.  Without a
\* calculationViews container, or with every node skipped, process_file
\* returns normally and leaves the output file alone; otherwise it writes
\* WITH, a blank line and the blocks joined by a blank line, each ending
\* "),".  Stated for the documents in which every filter element has a text
C8_WrittenIffBlocks ==
    (Terminated /\ input_doc.well_formed /\ EveryFilterHasText) =>
        LET nothing_emitted ==
                \/ input_doc.calculationViews = None
                \/ \A k \in 1..Len(Views) : ~HasUsableInput(Views[k])
        IN /\ Written <=> (all_sql_blocks # <<>>)
           /\ nothing_emitted => (pc = "returned" /\ ~Written)
           /\ ~nothing_emitted =>
                  /\ output_file = Some("WITH\n\n" \o str_join("\n\n", all_sql_blocks))
                  /\ \A k \in 1..Len(all_sql_blocks) : EndsWith(all_sql_blocks[k], "),")

\* the whitespace-trimmed text of the filter element of a node: empty when
\* the element is absent or has no text
TrimmedFilterText(v) ==
    IF v.filter = NoFilter \/ v.filter = FilterNoText THEN "" ELSE strip(v.filter[1][1])

\* the end of a projection block: the FROM line, the WHERE clause when there
\* is one, and the closing line
ExpectedBlockEnd(from_clause, rewritten) ==
    "\n    " \o from_clause
        \o (IF rewritten # "" THEN "\n    WHERE\n        " \o rewritten ELSE "")
        \o "\n),"

\* C11: a projection node with a usable input emits its block without error;
\* the block has a WHERE clause iff the node has a filter element whose
\* trimmed text is non-empty, and the clause is then the rewritten filter; an
\* absent, empty (no text) or blank filter gives the block without WHERE
C11_WhereIffFilterText ==
    (HasLast /\ IsProjection(LastView) /\ HasUsableInput(LastView)) =>
        /\ locals.outcome = "append"
        /\ pc # "raised"
        /\ LET text == TrimmedFilterText(LastView)
               rewritten == replace_filter_expressions(text, "J1",
                                                       locals.target_to_source_map)
               block == all_sql_blocks[Len(all_sql_blocks)]
           IN /\ (locals.where_clause # "") <=> (text # "")
              /\ text # "" => locals.where_clause = "WHERE\n        " \o rewritten
              /\ EndsWith(block, ExpectedBlockEnd(locals.from_clause,
                                                  IF text # "" THEN rewritten ELSE ""))

(***************************************************************************)
(* Properties of __main__ in directory mode                                *)
(***************************************************************************)
MainTerminated == main_pc \in {"done", "raised"}

DirectoryRun == ~isfile(args.input_path) /\ isdir(args.input_path)

\* the .xml and .calculationview files the traversal covers: those of the
\* input directory and, with --recursive, those below it
Qualifying ==
    {f \in tree :
        /\ \E ext \in {".xml", ".calculationview"} :
               Len(f.name) > Len(ext)
               /\ lower(SubSeq(f.name, Len(f.name) - Len(ext) + 1, Len(f.name))) = ext
        /\ \/ f.dir = args.input_path
           \/ args.recursive /\ StartsWith(f.dir, args.input_path \o "/")}

WasProcessed(f) ==
    \E k \in 1..Len(processed) : processed[k].in_file = f.dir \o "/" \o f.name

\* C9: in directory mode a file whose conversion fails does not end the run:
\* every qualifying file of the traversal is processed.  Stated for the runs
\* with --output, where every output directory is created before the file is
\* converted
C9_FailureDoesNotAbort ==
    (MainTerminated /\ DirectoryRun /\ args.output # None) =>
        \A f \in Qualifying : WasProcessed(f)

\* the name of f without its extension
BaseName(f) == SubSeq(f.name, 1, last_index(f.name, ".") - 1)

\* where the .sql of f belongs: at the mirrored relative path under --output,
\* else beside f
ExpectedOutput(f) ==
    IF args.output # None
    THEN args.output[1] \o SubSeq(f.dir, Len(args.input_path) + 1, Len(f.dir))
             \o "/" \o BaseName(f) \o ".sql"
    ELSE f.dir \o "/" \o BaseName(f) \o ".sql"

\* C10: in directory mode every qualifying file of the traversal that yields
\* a block gets its .sql at the mirrored path under --output, or beside the
\* input file without --output, and nothing else is written.  Stated for the
\* trees in which no document is malformed
C10_OneOutputPerInput ==
    (MainTerminated /\ DirectoryRun /\ \A f \in tree : f.doc.well_formed) =>
        LET converted == {f \in Qualifying : run_process_file(f.doc).text # None}
        IN /\ DOMAIN written = {ExpectedOutput(f) : f \in converted}
           /\ \A f \in converted :
                  written[ExpectedOutput(f)] = run_process_file(f.doc).text[1]

====
